---- MODULE Spec2Model ----
(***************************************************************************)
(* Model of train() in src/train.py: the epoch loop with a training pass,  *)
(* a validation pass, the checkpoint-on-improvement test and the epoch     *)
(* log.  Floats are modelled as exact fractions <<num, den>>; the results  *)
(* of the opaque collaborators (model, criterion, metrics) are drawn from  *)
(* small sets; every collaborator call may raise.                          *)
(***************************************************************************)
EXTENDS Integers, Sequences, FiniteSets, TLC

\* ---------------------------------------------------------------- bounds
MaxBatches == 2        \* longest data loader explored
ShortEpochs == 2       \* n_epoch explored with every result set
MaxEpoch == 21         \* the long run: crosses the 20th epoch

\* ------------------------------------------------------ program constants
SaveInterval == 20

\* per-batch results <<loss, psnr, ssim>> the collaborators can return
TrainResults == {<<1, 10, 1>>, <<2, 30, 0>>}
ValResultSets ==
    { {<<4, 0, 0>>, <<2, 20, 1>>},
      {<<2, 20, 1>>, <<3, 18, 0>>},
      {<<1, 25, 1>>} }
LongTrainResults == {<<1, 10, 1>>}
LongValResults == {<<2, 0, 0>>, <<2, 20, 1>>}

VARIABLES
    n_epoch,        \* argument of train()
    data_loaders,   \* len() of the two loaders: [train, validation]
    collab,         \* results the collaborators may return in this run
    pc,             \* position in train()
    epoch,          \* loop variable of line 50 (0-indexed)
    i,              \* batches already drawn from the current loader
    train_loss, train_psnr, train_ssim,
    val_loss, val_psnr, val_ssim,
    best_psnr,
    outputs,        \* which forward pass the name `outputs` is bound to
    weights,        \* number of optimizer steps applied to the model
    train_losses, val_losses,
    checkpoint,     \* what the checkpoint writer has persisted
    calls,          \* writer calls made in the current epoch, in order
    trainVals,      \* per-batch results of this epoch's training pass
    valVals,        \* per-batch results of this epoch's validation pass
    prevMax,        \* largest validation PSNR of the epochs already logged
    wAfterTrain,    \* weights right after this epoch's last training batch
    raised          \* an exception has been raised inside train()

vars == <<n_epoch, data_loaders, collab, pc, epoch, i,
          train_loss, train_psnr, train_ssim, val_loss, val_psnr, val_ssim,
          best_psnr, outputs, weights, train_losses, val_losses,
          checkpoint, calls, trainVals, valVals, prevMax, wAfterTrain, raised>>

\* ------------------------------------------------------------- fractions
Zero == <<0, 1>>

RatAdd(a, v) == <<a[1] + v * a[2], a[2]>>

RatDiv(a, n) == <<a[1], a[2] * n>>

RatGT(a, b) == a[1] * b[2] > b[1] * a[2]

RatEq(a, b) == a[1] * b[2] = b[1] * a[2]

RatMax(a, b) == IF RatGT(b, a) THEN b ELSE a

RECURSIVE SumField(_, _)
SumField(s, k) == IF s = <<>> THEN 0 ELSE s[1][k] + SumField(Tail(s), k)

\* --------------------------------------------------------------- helpers
NoOutputs == [epoch |-> -1, phase |-> "none", batch |-> 0]

NoCheckpoint == [epoch |-> -1]

Forward(e, phase, b) == [epoch |-> e, phase |-> phase, batch |-> b]

\* the loop stops one epoch early
LoopDoneOffByOne(e, n) == e + 1 >= n

LoopDone(e, n) == e >= n

\* the test is made on the 0-indexed epoch
IsPeriodicEpochZeroIndexed(e) == e % SaveInterval = 0

IsPeriodicEpoch(e) == (e + 1) % SaveInterval = 0

ShouldCheckpoint(v, b) == RatGT(v, b)

\* best_psnr is assigned outside the if
BestAfterCheckAssign(v, b) == v

BestAfterCheck(v, b) == b

OptimizerStep(w) == w + 1

\* the validation loop steps the optimizer
EvalWeightsStep(w) == w + 1

EvalWeights(w) == w

\* the validation sums are divided by the training loader's length
EpochMeanTrainLen(acc, phase) == RatDiv(acc, data_loaders["train"])

EpochMean(acc, phase) == RatDiv(acc, data_loaders[phase])

\* the exception is caught and the loop goes on
RaiseSwallowed(p) == p

Raise(p) == "failed"

SaveModelCall(e, v) == [op |-> "save_model", epoch |-> e, psnr |-> v]

\* the periodic write carries the best flag
PeriodicCallFlagged(o, e) ==
    [op |-> "save_output_images", outputs |-> o, epoch |-> e, best |-> TRUE]

PeriodicCall(o, e) ==
    [op |-> "save_output_images", outputs |-> o, epoch |-> e, best |-> FALSE]

\* the best write omits the flag
BestCallUnflagged(o, e) ==
    [op |-> "save_output_images", outputs |-> o, epoch |-> e, best |-> FALSE]

BestCall(o, e) ==
    [op |-> "save_output_images", outputs |-> o, epoch |-> e, best |-> TRUE]

Persisted(e, w, l, p, s) ==
    [epoch |-> e, weights |-> w, loss |-> l, psnr |-> p, ssim |-> s]

\* ------------------------------------------------------------------ Init
InitCommon ==
    /\ pc = "loop"
    /\ epoch = 0
    /\ i = 0
    /\ train_loss = Zero /\ train_psnr = Zero /\ train_ssim = Zero
    /\ val_loss = Zero /\ val_psnr = Zero /\ val_ssim = Zero
    /\ best_psnr = Zero
    /\ outputs = NoOutputs
    /\ weights = 0
    /\ train_losses = [e \in 0..(n_epoch - 1) |-> Zero]
    /\ val_losses = [e \in 0..(n_epoch - 1) |-> Zero]
    /\ checkpoint = NoCheckpoint
    /\ calls = <<>>
    /\ trainVals = <<>>
    /\ valVals = <<>>
    /\ prevMax = Zero
    /\ wAfterTrain = 0
    /\ raised = FALSE

Init ==
    /\ \/ /\ n_epoch \in 0..ShortEpochs
          /\ data_loaders \in [{"train", "validation"} -> 0..MaxBatches]
          /\ \E vs \in ValResultSets :
                collab = [train |-> TrainResults, validation |-> vs]
       \/ /\ n_epoch = MaxEpoch
          /\ data_loaders \in [{"train", "validation"} -> 1..MaxBatches]
          /\ collab = [train |-> LongTrainResults,
                       validation |-> LongValResults]
    /\ InitCommon

\* --------------------------------------------------------------- actions
Config == <<n_epoch, data_loaders, collab>>

\* lines 50-54
EpochStart ==
    /\ pc = "loop"
    /\ ~LoopDone(epoch, n_epoch)
    /\ train_loss' = Zero /\ train_psnr' = Zero /\ train_ssim' = Zero
    /\ i' = 0
    /\ pc' = "train"
    /\ calls' = <<>> /\ trainVals' = <<>> /\ valVals' = <<>>
    /\ wAfterTrain' = weights
    /\ UNCHANGED <<Config, epoch, val_loss, val_psnr, val_ssim, best_psnr,
                   outputs, weights, train_losses, val_losses, checkpoint,
                   prevMax, raised>>

\* lines 55-70, one iteration
TrainBatch ==
    /\ pc = "train"
    /\ i < data_loaders["train"]
    /\ \E r \in collab["train"] :
         /\ train_loss' = RatAdd(train_loss, r[1])
         /\ train_psnr' = RatAdd(train_psnr, r[2])
         /\ train_ssim' = RatAdd(train_ssim, r[3])
         /\ trainVals' = Append(trainVals, r)
    /\ outputs' = Forward(epoch, "train", i + 1)
    /\ weights' = OptimizerStep(weights)
    /\ wAfterTrain' = weights'
    /\ i' = i + 1
    /\ UNCHANGED <<Config, pc, epoch, val_loss, val_psnr, val_ssim,
                   best_psnr, train_losses, val_losses, checkpoint, calls,
                   valVals, prevMax, raised>>

\* lines 55-70, an iteration in which a collaborator raises after k of the
\* three accumulations (k = 3: backward() or optimizer.step() raises)
TrainBatchRaise ==
    /\ pc = "train"
    /\ i < data_loaders["train"]
    /\ \E r \in collab["train"], k \in 0..3 :
         /\ train_loss' = IF k >= 1 THEN RatAdd(train_loss, r[1]) ELSE train_loss
         /\ train_psnr' = IF k >= 2 THEN RatAdd(train_psnr, r[2]) ELSE train_psnr
         /\ train_ssim' = IF k >= 3 THEN RatAdd(train_ssim, r[3]) ELSE train_ssim
         /\ outputs' = IF k >= 1 THEN Forward(epoch, "train", i + 1) ELSE outputs
    /\ i' = i + 1
    /\ pc' = Raise(pc)
    /\ raised' = TRUE
    /\ UNCHANGED <<Config, epoch, val_loss, val_psnr, val_ssim, best_psnr,
                   weights, train_losses, val_losses, checkpoint, calls,
                   trainVals, valVals, prevMax, wAfterTrain>>

\* lines 72-80; float / 0 raises ZeroDivisionError at line 72
TrainFinalize ==
    /\ pc = "train"
    /\ i >= data_loaders["train"]
    /\ IF data_loaders["train"] = 0
       THEN /\ pc' = Raise(pc)
            /\ raised' = TRUE
            /\ UNCHANGED <<train_loss, train_psnr, train_ssim,
                           val_loss, val_psnr, val_ssim, i>>
       ELSE /\ train_loss' = EpochMean(train_loss, "train")
            /\ train_psnr' = EpochMean(train_psnr, "train")
            /\ train_ssim' = EpochMean(train_ssim, "train")
            /\ val_loss' = Zero /\ val_psnr' = Zero /\ val_ssim' = Zero
            /\ i' = 0
            /\ pc' = "val"
            /\ UNCHANGED raised
    /\ UNCHANGED <<Config, epoch, best_psnr, outputs, weights, train_losses,
                   val_losses, checkpoint, calls, trainVals, valVals,
                   prevMax, wAfterTrain>>

\* lines 81-97, one iteration
ValBatch ==
    /\ pc = "val"
    /\ i < data_loaders["validation"]
    /\ \E r \in collab["validation"] :
         /\ val_loss' = RatAdd(val_loss, r[1])
         /\ val_psnr' = RatAdd(val_psnr, r[2])
         /\ val_ssim' = RatAdd(val_ssim, r[3])
         /\ valVals' = Append(valVals, r)
    /\ outputs' = Forward(epoch, "validation", i + 1)
    /\ weights' = EvalWeights(weights)
    /\ calls' = IF IsPeriodicEpoch(epoch)
                THEN Append(calls, PeriodicCall(outputs', epoch))
                ELSE calls
    /\ i' = i + 1
    /\ UNCHANGED <<Config, pc, epoch, train_loss, train_psnr, train_ssim,
                   best_psnr, train_losses, val_losses, checkpoint,
                   trainVals, prevMax, wAfterTrain, raised>>

\* lines 81-97, an iteration in which a collaborator raises after k of the
\* three accumulations (k = 3: the image writer of line 97 raises)
ValBatchRaise ==
    /\ pc = "val"
    /\ i < data_loaders["validation"]
    /\ \E r \in collab["validation"], k \in 0..3 :
         /\ k = 3 => IsPeriodicEpoch(epoch)
         /\ val_loss' = IF k >= 1 THEN RatAdd(val_loss, r[1]) ELSE val_loss
         /\ val_psnr' = IF k >= 2 THEN RatAdd(val_psnr, r[2]) ELSE val_psnr
         /\ val_ssim' = IF k >= 3 THEN RatAdd(val_ssim, r[3]) ELSE val_ssim
         /\ outputs' = IF k >= 1 THEN Forward(epoch, "validation", i + 1)
                       ELSE outputs
    /\ i' = i + 1
    /\ pc' = Raise(pc)
    /\ raised' = TRUE
    /\ UNCHANGED <<Config, epoch, train_loss, train_psnr, train_ssim,
                   best_psnr, weights, train_losses, val_losses, checkpoint,
                   calls, trainVals, valVals, prevMax, wAfterTrain>>

\* lines 99-101; float / 0 raises ZeroDivisionError at line 99
ValFinalize ==
    /\ pc = "val"
    /\ i >= data_loaders["validation"]
    /\ IF data_loaders["validation"] = 0
       THEN /\ pc' = Raise(pc)
            /\ raised' = TRUE
            /\ UNCHANGED <<val_loss, val_psnr, val_ssim>>
       ELSE /\ val_loss' = EpochMean(val_loss, "validation")
            /\ val_psnr' = EpochMean(val_psnr, "validation")
            /\ val_ssim' = EpochMean(val_ssim, "validation")
            /\ pc' = "ckpt"
            /\ UNCHANGED raised
    /\ UNCHANGED <<Config, epoch, i, train_loss, train_psnr, train_ssim,
                   best_psnr, outputs, weights, train_losses, val_losses,
                   checkpoint, calls, trainVals, valVals, prevMax,
                   wAfterTrain>>

\* lines 103-106
CheckpointCheck ==
    /\ pc = "ckpt"
    /\ IF ShouldCheckpoint(val_psnr, best_psnr)
       THEN /\ checkpoint' = Persisted(epoch, weights, val_loss, val_psnr,
                                       val_ssim)
            /\ calls' = calls \o <<SaveModelCall(epoch, val_psnr),
                                   BestCall(outputs, epoch)>>
       ELSE UNCHANGED <<checkpoint, calls>>
    /\ best_psnr' = BestAfterCheck(val_psnr, best_psnr)
    /\ pc' = "log"
    /\ UNCHANGED <<Config, epoch, i, train_loss, train_psnr, train_ssim,
                   val_loss, val_psnr, val_ssim, outputs, weights,
                   train_losses, val_losses, trainVals, valVals, prevMax,
                   wAfterTrain, raised>>

\* line 104: the checkpoint writer raises, nothing is persisted
SaveModelRaise ==
    /\ pc = "ckpt"
    /\ ShouldCheckpoint(val_psnr, best_psnr)
    /\ pc' = Raise(pc)
    /\ raised' = TRUE
    /\ UNCHANGED <<Config, epoch, i, train_loss, train_psnr, train_ssim,
                   val_loss, val_psnr, val_ssim, best_psnr, outputs, weights,
                   train_losses, val_losses, checkpoint, calls, trainVals,
                   valVals, prevMax, wAfterTrain>>

\* line 106: the checkpoint is written, then the image writer raises
BestImageRaise ==
    /\ pc = "ckpt"
    /\ ShouldCheckpoint(val_psnr, best_psnr)
    /\ checkpoint' = Persisted(epoch, weights, val_loss, val_psnr, val_ssim)
    /\ calls' = Append(calls, SaveModelCall(epoch, val_psnr))
    /\ pc' = Raise(pc)
    /\ raised' = TRUE
    /\ UNCHANGED <<Config, epoch, i, train_loss, train_psnr, train_ssim,
                   val_loss, val_psnr, val_ssim, best_psnr, outputs, weights,
                   train_losses, val_losses, trainVals, valVals, prevMax,
                   wAfterTrain>>

\* lines 109-117, and the loop's step to the next epoch
LogEpoch ==
    /\ pc = "log"
    /\ train_losses' = [train_losses EXCEPT ![epoch] = train_loss]
    /\ val_losses' = [val_losses EXCEPT ![epoch] = val_loss]
    /\ prevMax' = RatMax(prevMax, val_psnr)
    /\ epoch' = epoch + 1
    /\ pc' = "loop"
    /\ UNCHANGED <<Config, i, train_loss, train_psnr, train_ssim, val_loss,
                   val_psnr, val_ssim, best_psnr, outputs, weights,
                   checkpoint, calls, trainVals, valVals, wAfterTrain,
                   raised>>

\* lines 119-121
Done ==
    /\ pc = "loop"
    /\ LoopDone(epoch, n_epoch)
    /\ pc' = "done"
    /\ UNCHANGED <<Config, epoch, i, train_loss, train_psnr, train_ssim,
                   val_loss, val_psnr, val_ssim, best_psnr, outputs, weights,
                   train_losses, val_losses, checkpoint, calls, trainVals,
                   valVals, prevMax, wAfterTrain, raised>>

Next ==
    \/ EpochStart
    \/ TrainBatch
    \/ TrainBatchRaise
    \/ TrainFinalize
    \/ ValBatch
    \/ ValBatchRaise
    \/ ValFinalize
    \/ CheckpointCheck
    \/ SaveModelRaise
    \/ BestImageRaise
    \/ LogEpoch
    \/ Done

Spec == Init /\ [][Next]_vars

\* ---------------------------------------------------------------- claims
SaveModelCalls == SelectSeq(calls, LAMBDA c : c.op = "save_model")

BestCalls ==
    SelectSeq(calls, LAMBDA c : c.op = "save_output_images" /\ c.best)

PeriodicCalls ==
    SelectSeq(calls, LAMBDA c : c.op = "save_output_images" /\ ~c.best)

MeanOf(s, k) == <<SumField(s, k), Len(s)>>

InEpoch == pc \in {"train", "val", "ckpt", "log", "failed"}

Multiple20 == (epoch + 1) % 20 = 0

LastValOutputs ==
    [epoch |-> epoch, phase |-> "validation",
     batch |-> data_loaders["validation"]]

\* C1: once an epoch's checkpoint check is over, a save_model call was made
\* in that epoch if and only if the epoch's validation PSNR is strictly
\* greater than the best validation PSNR of all earlier epochs (0.0 at first).
C1_CheckpointIffImproved ==
    pc = "log" => (Len(SaveModelCalls) >= 1 <=> RatGT(val_psnr, prevMax))

\* C2: after the checkpoint check of every epoch, best_psnr equals the
\* maximum of 0.0 and all validation PSNR values observed so far.
C2_BestIsRunningMax ==
    pc = "log" => RatEq(best_psnr, RatMax(prevMax, val_psnr))

\* C3: best_psnr never decreases: in every step its new value is greater
\* than or equal to its previous value.
C3_BestNonDecreasing == [][~RatGT(best_psnr, best_psnr')]_vars

C3_Witness ==
    /\ pc = "log"
    /\ epoch >= 1
    /\ RatGT(prevMax, val_psnr)

\* C4: a non-best save_output_images call is made during an epoch only if
\* its 1-indexed number is a multiple of 20, and every such epoch that gets
\* through its validation pass has made one.
C4_PeriodicIffMultipleOf20 ==
    /\ (InEpoch /\ Len(PeriodicCalls) > 0) => Multiple20
    /\ (pc \in {"ckpt", "log"} /\ Multiple20) => Len(PeriodicCalls) > 0

C4_Witness ==
    /\ pc = "log"
    /\ epoch + 1 = 20
    /\ Len(PeriodicCalls) > 0

\* C5: in every completed epoch the number of best-flagged image writes
\* equals the number of save_model calls, both are at most one, and the
\* best-flagged images are the outputs of the epoch's last validation batch;
\* a run of one epoch with one batch per loader and validation PSNR 25 makes
\* exactly one checkpoint write, one best image write and no periodic write.
C5_BestImageWithCheckpoint ==
    /\ pc = "log" =>
         /\ Len(BestCalls) = Len(SaveModelCalls)
         /\ Len(SaveModelCalls) <= 1
         /\ \A k \in 1..Len(BestCalls) :
              /\ BestCalls[k].outputs = LastValOutputs
              /\ BestCalls[k].epoch = epoch
    /\ ( /\ pc = "done" /\ n_epoch = 1
         /\ data_loaders["train"] = 1 /\ data_loaders["validation"] = 1
         /\ RatEq(val_psnr, <<25, 1>>) ) =>
         /\ Len(SaveModelCalls) = 1
         /\ Len(BestCalls) = 1
         /\ Len(PeriodicCalls) = 0

C5_Witness ==
    /\ pc = "done" /\ n_epoch = 1
    /\ data_loaders["train"] = 1 /\ data_loaders["validation"] = 1
    /\ RatEq(val_psnr, <<25, 1>>)
    /\ Len(SaveModelCalls) = 1

\* C6: the finalized loss, PSNR and SSIM of each phase equal the sum of the
\* per-batch values of exactly the batches processed in that phase of that
\* epoch divided by their number.
C6_EpochStatsAreMeans ==
    /\ pc \in {"val", "ckpt", "log"} =>
         /\ Len(trainVals) = data_loaders["train"]
         /\ train_loss[2] # 0 /\ train_psnr[2] # 0 /\ train_ssim[2] # 0
         /\ RatEq(train_loss, MeanOf(trainVals, 1))
         /\ RatEq(train_psnr, MeanOf(trainVals, 2))
         /\ RatEq(train_ssim, MeanOf(trainVals, 3))
    /\ pc \in {"ckpt", "log"} =>
         /\ Len(valVals) = data_loaders["validation"]
         /\ val_loss[2] # 0 /\ val_psnr[2] # 0 /\ val_ssim[2] # 0
         /\ RatEq(val_loss, MeanOf(valVals, 1))
         /\ RatEq(val_psnr, MeanOf(valVals, 2))
         /\ RatEq(val_ssim, MeanOf(valVals, 3))

C6_Witness ==
    /\ pc = "log"
    /\ epoch = 1
    /\ Len(trainVals) = 2 /\ trainVals[1] # trainVals[2]
    /\ Len(valVals) = 2 /\ valVals[1] # valVals[2]

\* C7 as stated: on every 20th epoch exactly one periodic save_output_images
\* call is made and its argument is the outputs of the last validation batch.
C7_OnePeriodicCall ==
    (pc = "log" /\ Multiple20) =>
        /\ Len(PeriodicCalls) = 1
        /\ PeriodicCalls[1].outputs = LastValOutputs

\* C7 amended: on every 20th epoch one periodic save_output_images call is
\* made per validation batch, in batch order, each with that batch's outputs,
\* so the last call carries the outputs of the last validation batch.
C7_PeriodicCallPerBatch ==
    (pc = "log" /\ Multiple20) =>
        /\ Len(PeriodicCalls) = data_loaders["validation"]
        /\ \A k \in 1..Len(PeriodicCalls) :
             /\ PeriodicCalls[k].outputs =
                  [epoch |-> epoch, phase |-> "validation", batch |-> k]
             /\ PeriodicCalls[k].epoch = epoch

C7_Witness ==
    /\ pc = "log"
    /\ Multiple20
    /\ data_loaders["validation"] = 2
    /\ Len(PeriodicCalls) = 2

\* C8: only the optimizer step of a training batch changes the weights, and
\* from the start of validation to the log the weights are those left by
\* the epoch's last training batch.
C8_WeightsOnlyByTrainStep ==
    /\ [][weights' # weights =>
            (pc = "train" /\ pc' = "train" /\ i' = i + 1)]_vars
    /\ [](pc \in {"val", "ckpt", "log"} => weights = wAfterTrain)

C8_Witness ==
    /\ pc = "log"
    /\ Len(valVals) = 2
    /\ weights = 2

\* C9: the phases follow the order train, validation, checkpoint check, log
\* within an epoch, epochs follow one another only through the log, and
\* DONE is reached only after exactly n_epoch epochs.
PhaseOrder ==
    { <<"loop", "train">>, <<"train", "val">>, <<"val", "ckpt">>,
      <<"ckpt", "log">>, <<"log", "loop">>, <<"loop", "done">>,
      <<"train", "failed">>, <<"val", "failed">>, <<"ckpt", "failed">> }

C9_PhaseOrder ==
    /\ [][ /\ pc' # pc => <<pc, pc'>> \in PhaseOrder
           /\ epoch' # epoch => (pc = "log" /\ epoch' = epoch + 1) ]_vars
    /\ [] ( /\ valVals # <<>> => Len(trainVals) = data_loaders["train"]
            /\ pc = "val" => Len(trainVals) = data_loaders["train"]
            /\ pc = "train" => valVals = <<>>
            /\ pc \in {"ckpt", "log"} =>
                 Len(valVals) = data_loaders["validation"]
            /\ Len(SaveModelCalls) > 0 =>
                 Len(valVals) = data_loaders["validation"]
            /\ pc = "done" => epoch = n_epoch )

C9_Witness ==
    /\ pc = "done"
    /\ n_epoch = 2
    /\ epoch = 2
    /\ Len(valVals) = 2

\* C10: once a collaborator has raised nothing more happens: train() is at
\* its end, no variable changes any more, the failing epoch is not in the
\* loss histories, and the persisted checkpoint is the one written by the
\* last save_model call that completed.
C10_FailureIsFatal ==
    /\ [][~raised]_vars
    /\ [] (raised =>
            /\ pc = "failed"
            /\ epoch < n_epoch
            /\ train_losses[epoch] = Zero /\ val_losses[epoch] = Zero
            /\ IF Len(SaveModelCalls) > 0
               THEN /\ checkpoint.epoch = epoch
                    /\ checkpoint.psnr = SaveModelCalls[1].psnr
               ELSE checkpoint.epoch < epoch)

C10_Witness ==
    /\ raised
    /\ pc = "failed"
    /\ epoch = 1
    /\ checkpoint.epoch = 0
    /\ Len(valVals) >= 1
====
